---- MODULE Spec2Model ----
(***************************************************************************)
(* A model of the silly-small-scheme interpreter (src/src/scheme/scheme.py) *)
(* : the value universe, Frame (lookup / bind / set), the evaluator with    *)
(* its special forms, apply, the native procedures of                      *)
(* BUILTIN_FUNCTIONS_BY_NAME, the parser and SchemeContext.                 *)
(*                                                                         *)
(* Python objects are records of one shape, so that any two values can be   *)
(* compared:                                                               *)
(*   kind   "none" | "bool" | "int" | "float" | "str" | "symbol" | "list"   *)
(*          | "closure" | "native"                                         *)
(*   num    the number (bool: 0/1; float: whole floats only), or the        *)
(*          identity of a closure                                          *)
(*   name   the text of a str, the name of a symbol or native procedure     *)
(*   elems  the elements of a list, or the forms of a closure               *)
(*   params <<p>> for a closure whose _params is the value p                *)
(*   frame  the index of a closure's frame in the heap (0 otherwise)        *)
(* Frames live in a heap (a sequence); a frame reference is its index, and  *)
(* 0 is Python's None.                                                     *)
(***************************************************************************)
EXTENDS Integers, Sequences, FiniteSets, TLC

VARIABLES heap, op, result, calls

vars == <<heap, op, result, calls>>

-----------------------------------------------------------------------------
(* Values *)

Value(k, n, s, es, ps, f) ==
    [kind |-> k, num |-> n, name |-> s, elems |-> es, params |-> ps, frame |-> f]

None == Value("none", 0, "", <<>>, <<>>, 0)

Boolean(b) == Value("bool", IF b THEN 1 ELSE 0, "", <<>>, <<>>, 0)

Integer(n) == Value("int", n, "", <<>>, <<>>, 0)

Float(n) == Value("float", n, "", <<>>, <<>>, 0)

String(s) == Value("str", 0, s, <<>>, <<>>, 0)

List(es) == Value("list", 0, "", es, <<>>, 0)

Nil == List(<<>>)

Native(s) == Value("native", 0, s, <<>>, <<>>, 0)

\* class Symbol: equality and hash are those of the name.
Symbol(s) == Value("symbol", 0, s, <<>>, <<>>, 0)

\* class Closure: forms, params and the frame it was created in. Python
\* compares closures by identity: id numbers the closure objects.
Closure(id, forms, params, frame) ==
    Value("closure", id, "", forms, <<params>>, frame)

get_forms(c) == c.elems

get_params(c) == c.params[1]

\* A closure that runs in the root frame, whatever frame made it.
get_frame_root(c) == 1

get_frame(c) == c.frame

IsNumber(v) == v.kind \in {"bool", "int", "float"}

\* Python's bool(v): None, False, 0, 0.0, "" and [] are false; a Symbol, a
\* Closure and a function define neither __bool__ nor __len__ and are true.
Truthy(v) ==
    CASE v.kind = "none" -> FALSE
      [] v.kind \in {"bool", "int", "float"} -> v.num # 0
      [] v.kind = "str" -> v.name # ""
      [] v.kind = "list" -> v.elems # <<>>
      [] OTHER -> TRUE

\* Python's x == y.
RECURSIVE PyEq(_, _)
PyEq(x, y) ==
    CASE IsNumber(x) /\ IsNumber(y) -> x.num = y.num
      [] x.kind = "list" /\ y.kind = "list" ->
            /\ Len(x.elems) = Len(y.elems)
            /\ \A i \in 1..Len(x.elems) : PyEq(x.elems[i], y.elems[i])
      [] x.kind = y.kind /\ x.kind \in {"str", "symbol", "native"} ->
            x.name = y.name
      [] x.kind = "closure" /\ y.kind = "closure" -> x.num = y.num
      [] x.kind = "none" /\ y.kind = "none" -> TRUE
      [] OTHER -> FALSE

\* Python's slice s[i:] of a list, i counted from 0.
Slice(s, i) == SubSeq(s, i + 1, Len(s))

-----------------------------------------------------------------------------
(* Outcomes: a returned value or a raised exception, with the heap after.   *)
(*   "Unbound"     SchemeError("Unbound:" + str(value))                     *)
(*   "NotCallable" SchemeError(func), raised by apply                       *)
(*   "Parse"       SchemeError raised by _parse                             *)
(*   "Host"        a Python exception (IndexError, TypeError,               *)
(*                 ZeroDivisionError)                                        *)
(*   "Unmodelled"  an operation on values this model does not represent     *)

Return(h, v) == [heap |-> h, val |-> v, err |-> ""]

Raise(h, e) == [heap |-> h, val |-> None, err |-> e]

-----------------------------------------------------------------------------
(* class Frame *)

EmptyBindings == [k \in {} |-> None]

\* Frame.__init__
Frame(bindings, parent) == [bindings |-> bindings, parent |-> parent]

\* Allocation of a new Frame object in the heap.
NewFrame(h, bindings, parent) ==
    [h EXCEPT !.frames = Append(@, Frame(bindings, parent))]

\* Frame.lookup that never asks the parent.
Frame_lookup_local(h, f, symbol) ==
    IF symbol \in DOMAIN h.frames[f].bindings THEN h.frames[f].bindings[symbol]
    ELSE None

\* Frame.lookup: the nearest binding on the chain, None when there is none.
RECURSIVE Frame_lookup(_, _, _)
Frame_lookup(h, f, symbol) ==
    LET self == h.frames[f] IN
    IF symbol \in DOMAIN self.bindings THEN self.bindings[symbol]
    ELSE IF self.parent # 0 THEN Frame_lookup(h, self.parent, symbol)
    ELSE None

\* Frame.bind
Frame_bind(h, f, symbol, value) ==
    [h EXCEPT !.frames[f].bindings = (symbol :> value) @@ @]

\* Frame.set: the parent chain is followed while the parent's lookup of the
\* symbol is a true value.
RECURSIVE Frame_set(_, _, _, _)
Frame_set(h, f, symbol, value) ==
    LET self == h.frames[f] IN
    IF symbol \in DOMAIN self.bindings THEN Frame_bind(h, f, symbol, value)
    ELSE IF self.parent # 0 /\ Truthy(Frame_lookup(h, self.parent, symbol))
         THEN Frame_set(h, self.parent, symbol, value)
    ELSE Frame_bind(h, f, symbol, value)

\* The frames of the ancestor chain of f, nearest first.
RECURSIVE Chain(_, _)
Chain(h, f) == IF f = 0 THEN <<>> ELSE <<f>> \o Chain(h, h.frames[f].parent)

-----------------------------------------------------------------------------
(* Helpers for Python's list, dict and number operations *)

Min(a, b) == IF a < b THEN a ELSE b

\* The exception of v[i] (i counted from 0), "" when v[i] exists.
ItemError(v, i) ==
    CASE v.kind = "list" -> IF i < Len(v.elems) THEN "" ELSE "Host"
      [] v.kind = "str" -> "Unmodelled"
      [] OTHER -> "Host"

\* The exception of iterating over or slicing v, "" when v is a list.
IterError(v) ==
    CASE v.kind = "list" -> ""
      [] v.kind = "str" -> "Unmodelled"
      [] OTHER -> "Host"

\* A list is unhashable and cannot be a dict key.
Hashable(v) == v.kind # "list"

\* Equal numbers are one dict key (1, 1.0 and True).
Key(v) == IF IsNumber(v) THEN Integer(v.num) ELSE v

\* A zip that pads the shorter list: a parameter without argument is bound
\* to the empty list.
ZipBindings_padded(ps, args) ==
    [k \in {Key(ps[i]) : i \in 1..Len(ps)} |->
        LET i == CHOOSE i \in 1..Len(ps) :
                    Key(ps[i]) = k /\ \A j \in (i + 1)..Len(ps) : Key(ps[j]) # k
        IN IF i <= Len(args) THEN args[i] ELSE Nil]

\* {p[0]: p[1] for p in zip(params, args)}: pairs up to the shorter length,
\* a later pair replacing an earlier one with the same key.
ZipBindings(ps, args) ==
    LET n == Min(Len(ps), Len(args)) IN
    [k \in {Key(ps[i]) : i \in 1..n} |->
        args[CHOOSE i \in 1..n :
                Key(ps[i]) = k /\ \A j \in (i + 1)..n : Key(ps[j]) # k]]

\* The result type of Python arithmetic on two numbers.
Number(x, y, n) ==
    IF x.kind = "float" \/ y.kind = "float" THEN Float(n) ELSE Integer(n)

\* Python's x % y on whole numbers: the sign of the result is that of y.
PyMod(x, y) == IF y > 0 THEN x % y ELSE -((-x) % (-y))

\* Python's x / y when y divides x.
PyDiv(x, y) == IF y > 0 THEN x \div y ELSE (-x) \div (-y)

-----------------------------------------------------------------------------
(* evaluate, apply and the native procedures *)

RECURSIVE evaluate(_, _, _), apply(_, _, _), EvalForms(_, _, _, _, _),
          EvalCond(_, _, _, _), EvalLet(_, _, _, _, _), EvalAnd(_, _, _, _),
          EvalOr(_, _, _, _), EvalArgs(_, _, _, _, _), CallNative(_, _, _),
          PyCall(_, _, _), MapLoop(_, _, _, _, _), FilterLoop(_, _, _, _, _),
          EvalIf(_, _, _), EvalSet(_, _, _), EvalDefine(_, _, _),
          EvalLambda(_, _, _), EvalLetForm(_, _, _), EvalCall(_, _, _)

\* for element in forms: result = evaluate(element, frame); return result
\* (the loop of progn and of apply).
EvalForms(forms, i, frame, h, last) ==
    IF i > Len(forms) THEN Return(h, last)
    ELSE LET r == evaluate(forms[i], frame, h) IN
         IF r.err # "" THEN r
         ELSE EvalForms(forms, i + 1, frame, r.heap, r.val)

\* The loop of cond.
EvalCond(branches, i, frame, h) ==
    IF i > Len(branches) THEN Return(h, Nil)
    ELSE LET branch == branches[i] IN
         IF ItemError(branch, 0) # "" THEN Raise(h, ItemError(branch, 0))
         ELSE LET test == evaluate(branch.elems[1], frame, h) IN
              IF test.err # "" THEN test
              ELSE IF Truthy(test.val)
                   THEN IF ItemError(branch, 1) # ""
                        THEN Raise(test.heap, ItemError(branch, 1))
                        ELSE evaluate(branch.elems[2], frame, test.heap)
              ELSE EvalCond(branches, i + 1, frame, test.heap)

\* {p[0]: evaluate(p[1], frame) for p in value[1]}: val is the dict.
EvalLet(pairs, i, frame, h, bindings) ==
    IF i > Len(pairs) THEN [heap |-> h, val |-> bindings, err |-> ""]
    ELSE LET p == pairs[i] IN
         IF ItemError(p, 0) # "" THEN Raise(h, ItemError(p, 0))
         ELSE IF ItemError(p, 1) # "" THEN Raise(h, ItemError(p, 1))
         ELSE LET r == evaluate(p.elems[2], frame, h) IN
              IF r.err # "" THEN r
              ELSE IF ~Hashable(p.elems[1]) THEN Raise(r.heap, "Host")
              ELSE EvalLet(pairs, i + 1, frame, r.heap,
                           (Key(p.elems[1]) :> r.val) @@ bindings)

\* The loop of and.
EvalAnd(vs, i, frame, h) ==
    IF i > Len(vs) THEN Return(h, Boolean(TRUE))
    ELSE LET r == evaluate(vs[i], frame, h) IN
         IF r.err # "" THEN r
         ELSE IF ~Truthy(r.val) THEN Return(r.heap, Boolean(FALSE))
         ELSE EvalAnd(vs, i + 1, frame, r.heap)

\* The loop of or.
EvalOr(vs, i, frame, h) ==
    IF i > Len(vs) THEN Return(h, Boolean(FALSE))
    ELSE LET r == evaluate(vs[i], frame, h) IN
         IF r.err # "" THEN r
         ELSE IF Truthy(r.val) THEN Return(r.heap, Boolean(TRUE))
         ELSE EvalOr(vs, i + 1, frame, r.heap)

\* [evaluate(arg, frame) for arg in value[1:]]: val is the list.
EvalArgs(args, i, frame, h, acc) ==
    IF i > Len(args) THEN [heap |-> h, val |-> acc, err |-> ""]
    ELSE LET r == evaluate(args[i], frame, h) IN
         IF r.err # "" THEN r
         ELSE EvalArgs(args, i + 1, frame, r.heap, Append(acc, r.val))

\* (if T A B): value[2] or value[3] is read only once the test is known.
EvalIf(v, frame, h) ==
    IF Len(v) < 2 THEN Raise(h, "Host")
    ELSE LET test == evaluate(v[2], frame, h) IN
         IF test.err # "" THEN test
         ELSE IF Truthy(test.val)
              THEN IF Len(v) < 3 THEN Raise(test.heap, "Host")
                   ELSE evaluate(v[3], frame, test.heap)
         ELSE IF Len(v) < 4 THEN Raise(test.heap, "Host")
         ELSE evaluate(v[4], frame, test.heap)

\* (set SYM EXPR) that calls Frame.set where the code calls Frame.bind.
EvalSet_nearest(v, frame, h) ==
    IF Len(v) < 3 THEN Raise(h, "Host")
    ELSE LET evaluated == evaluate(v[3], frame, h) IN
         IF evaluated.err # "" THEN evaluated
         ELSE IF ~Hashable(v[2]) THEN Raise(evaluated.heap, "Host")
         ELSE Return(Frame_set(evaluated.heap, frame, Key(v[2]), evaluated.val), Nil)

\* (set SYM EXPR): frame.bind(value[1], evaluate(value[2], frame))
EvalSet(v, frame, h) ==
    IF Len(v) < 3 THEN Raise(h, "Host")
    ELSE LET evaluated == evaluate(v[3], frame, h) IN
         IF evaluated.err # "" THEN evaluated
         ELSE IF ~Hashable(v[2]) THEN Raise(evaluated.heap, "Host")
         ELSE Return(Frame_bind(evaluated.heap, frame, Key(v[2]), evaluated.val), Nil)

\* (define (NAME P...) BODY...)
EvalDefine(v, frame, h) ==
    IF Len(v) < 2 THEN Raise(h, "Host")
    ELSE LET signature == v[2] IN
         IF IterError(signature) # "" THEN Raise(h, IterError(signature))
         ELSE IF ItemError(signature, 0) # "" THEN Raise(h, "Host")
         ELSE IF ~Hashable(signature.elems[1]) THEN Raise(h, "Host")
         ELSE LET id == h.nclos + 1
                  closure == Closure(id, Slice(v, 2),
                                     List(Slice(signature.elems, 1)), frame)
              IN Return(Frame_bind([h EXCEPT !.nclos = id], frame,
                                   Key(signature.elems[1]), closure), Nil)

\* (lambda (P...) BODY...)
EvalLambda(v, frame, h) ==
    IF Len(v) < 2 THEN Raise(h, "Host")
    ELSE LET id == h.nclos + 1 IN
         Return([h EXCEPT !.nclos = id], Closure(id, Slice(v, 2), v[2], frame))

\* (let ...) that binds each Ai in the frame of the let as soon as its Vi
\* is evaluated, and evaluates BODY there.
EvalLetForm_inplace(v, frame, h) ==
    IF Len(v) < 3 \/ IterError(v[2]) # "" THEN Raise(h, "Host")
    ELSE LET bind == EvalForms([i \in 1..Len(v[2].elems) |->
                                   List(<<Symbol("set")>> \o v[2].elems[i].elems)],
                               1, frame, h, Nil)
         IN IF bind.err # "" THEN bind ELSE evaluate(v[3], frame, bind.heap)

\* (let ((A V)...) BODY): the dict of the bindings, then BODY in
\* Frame(bindings, frame).
EvalLetForm(v, frame, h) ==
    IF Len(v) < 2 THEN Raise(h, "Host")
    ELSE IF IterError(v[2]) # "" THEN Raise(h, IterError(v[2]))
    ELSE LET bindings == EvalLet(v[2].elems, 1, frame, h, EmptyBindings) IN
         IF bindings.err # "" THEN bindings
         ELSE IF Len(v) < 3 THEN Raise(bindings.heap, "Host")
         ELSE LET h2 == NewFrame(bindings.heap, bindings.val, frame) IN
              evaluate(v[3], Len(h2.frames), h2)

\* The application of the evaluated head to the evaluated arguments.
EvalCall(v, frame, h) ==
    LET func == evaluate(v[1], frame, h) IN
    IF func.err # "" THEN func
    ELSE LET evaluated == EvalArgs(Slice(v, 1), 1, frame, func.heap, <<>>) IN
         IF evaluated.err # "" THEN evaluated
         ELSE apply(func.val, evaluated.val, evaluated.heap)

\* `bound is None`
IsUnbound(bound) == bound = None

evaluate(value, frame, h) ==
    IF value.kind = "symbol" THEN
        LET bound == Frame_lookup(h, frame, value) IN
        IF IsUnbound(bound) THEN Raise(h, "Unbound") ELSE Return(h, bound)
    ELSE IF value = Nil \/ value.kind # "list" THEN Return(h, value)
    ELSE
    LET v == value.elems IN
    CASE v[1] = Symbol("quote") ->
            IF Len(v) < 2 THEN Raise(h, "Host") ELSE Return(h, v[2])
      [] v[1] = Symbol("progn") -> EvalForms(Slice(v, 1), 1, frame, h, Nil)
      [] v[1] = Symbol("if") -> EvalIf(v, frame, h)
      [] v[1] = Symbol("cond") -> EvalCond(Slice(v, 1), 1, frame, h)
      [] v[1] = Symbol("set") -> EvalSet(v, frame, h)
      [] v[1] = Symbol("define") -> EvalDefine(v, frame, h)
      [] v[1] = Symbol("lambda") -> EvalLambda(v, frame, h)
      [] v[1] = Symbol("let") -> EvalLetForm(v, frame, h)
      [] v[1] = Symbol("and") -> EvalAnd(Slice(v, 1), 1, frame, h)
      [] v[1] = Symbol("or") -> EvalOr(Slice(v, 1), 1, frame, h)
      [] OTHER -> EvalCall(v, frame, h)

\* apply(func, params), params a sequence of values.
apply(func, params, h) ==
    IF func.kind = "closure" THEN
        LET ps == get_params(func) IN
        IF IterError(ps) # "" THEN Raise(h, IterError(ps))
        ELSE IF \E i \in 1..Min(Len(ps.elems), Len(params)) : ~Hashable(ps.elems[i])
             THEN Raise(h, "Host")
        ELSE LET h2 == NewFrame(h, ZipBindings(ps.elems, params), get_frame(func)) IN
             EvalForms(get_forms(func), 1, Len(h2.frames), h2, Nil)
    ELSE IF func.kind = "native" THEN CallNative(func.name, params, h)
    ELSE Raise(h, "NotCallable")

\* A Python call func(args) made by map and filter: Closure.__call__ is
\* apply(self, args); any other object that is no function is not callable.
PyCall(func, args, h) ==
    IF func.kind \in {"closure", "native"} THEN apply(func, args, h)
    ELSE Raise(h, "Host")

\* list(map(func, elems))
MapLoop(func, elems, i, h, acc) ==
    IF i > Len(elems) THEN Return(h, List(acc))
    ELSE LET r == PyCall(func, <<elems[i]>>, h) IN
         IF r.err # "" THEN r
         ELSE MapLoop(func, elems, i + 1, r.heap, Append(acc, r.val))

\* list(filter(func, elems))
FilterLoop(func, elems, i, h, acc) ==
    IF i > Len(elems) THEN Return(h, List(acc))
    ELSE LET r == PyCall(func, <<elems[i]>>, h) IN
         IF r.err # "" THEN r
         ELSE FilterLoop(func, elems, i + 1, r.heap,
                         IF Truthy(r.val) THEN Append(acc, elems[i]) ELSE acc)

\* The exception of an arithmetic or ordering operator on x and y that are
\* not both numbers (sequence operators of str and list are not modelled).
OperandError(x, y) ==
    IF x.kind \in {"str", "list"} THEN "Unmodelled" ELSE "Host"

\* x < y of BUILTIN_FUNCTIONS_BY_NAME['<']
LessThan(x, y) == x <= y

\* The lambdas of BUILTIN_FUNCTIONS_BY_NAME, called with args; eval is the
\* lambda of SchemeContext.__init__, which evaluates in the root frame.
CallNative(name, args, h) ==
    LET n == Len(args)
        x == args[1]
        y == args[2]
        both == IsNumber(x) /\ IsNumber(y)
        binary == name \in {"+", "-", "*", "mod", "/", ">", ">=", "<", "<=",
                            "=", "eq?", "cons", "map", "filter", "apply"}
    IN
    IF n # (IF binary THEN 2 ELSE 1) THEN Raise(h, "Host")
    ELSE
    CASE name = "+" ->
            IF both THEN Return(h, Number(x, y, x.num + y.num))
            ELSE IF x.kind = "list" /\ y.kind = "list"
                 THEN Return(h, List(x.elems \o y.elems))
            ELSE Raise(h, OperandError(x, y))
      [] name = "-" ->
            IF both THEN Return(h, Number(x, y, x.num - y.num))
            ELSE Raise(h, "Host")
      [] name = "*" ->
            IF both THEN Return(h, Number(x, y, x.num * y.num))
            ELSE Raise(h, "Unmodelled")
      [] name = "mod" ->
            IF both THEN IF y.num = 0 THEN Raise(h, "Host")
                         ELSE Return(h, Number(x, y, PyMod(x.num, y.num)))
            ELSE Raise(h, OperandError(x, y))
      [] name = "/" ->
            IF both THEN IF y.num = 0 THEN Raise(h, "Host")
                         ELSE IF PyMod(x.num, y.num) = 0
                              THEN Return(h, Float(PyDiv(x.num, y.num)))
                         ELSE Raise(h, "Unmodelled")
            ELSE Raise(h, "Host")
      [] name = ">" ->
            IF both THEN Return(h, Boolean(x.num > y.num))
            ELSE Raise(h, OperandError(x, y))
      [] name = ">=" ->
            IF both THEN Return(h, Boolean(x.num >= y.num))
            ELSE Raise(h, OperandError(x, y))
      [] name = "<" ->
            IF both THEN Return(h, Boolean(LessThan(x.num, y.num)))
            ELSE Raise(h, OperandError(x, y))
      [] name = "<=" ->
            IF both THEN Return(h, Boolean(x.num <= y.num))
            ELSE Raise(h, OperandError(x, y))
      [] name = "=" -> Return(h, Boolean(PyEq(x, y)))
      [] name = "eq?" -> Return(h, Boolean(x.kind = y.kind /\ PyEq(x, y)))
      [] name = "null?" -> Return(h, Boolean(x = Nil))
      [] name = "car" ->
            IF ItemError(x, 0) # "" THEN Raise(h, ItemError(x, 0))
            ELSE Return(h, x.elems[1])
      [] name = "cdr" ->
            IF IterError(x) # "" THEN Raise(h, IterError(x))
            ELSE Return(h, List(Slice(x.elems, 1)))
      [] name = "cons" ->
            IF y.kind = "list" THEN Return(h, List(<<x>> \o y.elems))
            ELSE Raise(h, "Host")
      [] name = "not" -> Return(h, Boolean(~Truthy(x)))
      [] name = "length" ->
            IF IterError(x) # "" THEN Raise(h, IterError(x))
            ELSE Return(h, Integer(Len(x.elems)))
      [] name = "map" ->
            IF IterError(y) # "" THEN Raise(h, IterError(y))
            ELSE MapLoop(x, y.elems, 1, h, <<>>)
      [] name = "filter" ->
            IF IterError(y) # "" THEN Raise(h, IterError(y))
            ELSE FilterLoop(x, y.elems, 1, h, <<>>)
      [] name = "apply" ->
            IF x.kind \notin {"closure", "native"} THEN Raise(h, "NotCallable")
            ELSE IF IterError(y) # "" THEN Raise(h, IterError(y))
            ELSE apply(x, y.elems, h)
      [] name = "eval" -> evaluate(x, 1, h)
      [] OTHER -> Raise(h, "Unmodelled")

-----------------------------------------------------------------------------
(* parse. The input of the model is the token list tokenize returns for the *)
(* source text: a sequence of [kind, lexeme].                              *)

Token(kind, lexeme) == [kind |-> kind, lexeme |-> lexeme]

ParseReturn(v, rest) == [val |-> v, rest |-> rest, err |-> ""]

ParseRaise(rest) == [val |-> None, rest |-> rest, err |-> "Parse"]

\* int(lexeme), and float(lexeme) when that fails, on the literals in use.
IntLexemes ==
    ("0" :> 0) @@ ("1" :> 1) @@ ("2" :> 2) @@ ("3" :> 3) @@ ("5" :> 5) @@ ("7" :> 7)
      @@ ("9" :> 9)

FloatLexemes == ("0.0" :> 0) @@ ("1.0" :> 1) @@ ("2.0" :> 2)

RECURSIVE _parse(_), ParseElements(_, _), ParseForms(_, _)

\* The loop of the LP branch: elements until the RP, which is consumed.
ParseElements(tokens, elements) ==
    IF tokens # <<>> /\ tokens[1].kind # "RP" THEN
        LET r == _parse(tokens) IN
        IF r.err # "" THEN r
        ELSE ParseElements(r.rest, Append(elements, r.val))
    ELSE IF tokens = <<>> THEN ParseRaise(tokens)
    ELSE ParseReturn(List(elements), Tail(tokens))

_parse(tokens) ==
    IF tokens = <<>> THEN ParseReturn(Nil, tokens)
    ELSE
    LET head == Head(tokens)
        rest == Tail(tokens)
    IN
    CASE head.kind = "BOOLEAN" ->
            IF head.lexeme = "#t" THEN ParseReturn(Boolean(TRUE), rest)
            ELSE IF head.lexeme = "#f" THEN ParseReturn(Boolean(FALSE), rest)
            ELSE ParseRaise(rest)
      [] head.kind = "NUMBER" ->
            IF head.lexeme \in DOMAIN IntLexemes
            THEN ParseReturn(Integer(IntLexemes[head.lexeme]), rest)
            ELSE IF head.lexeme \in DOMAIN FloatLexemes
            THEN ParseReturn(Float(FloatLexemes[head.lexeme]), rest)
            ELSE [val |-> None, rest |-> rest, err |-> "Unmodelled"]
      [] head.kind = "STRING" -> ParseReturn(String(head.lexeme), rest)
      [] head.kind = "SYMBOL" -> ParseReturn(Symbol(head.lexeme), rest)
      [] head.kind = "QUOTE" ->
            LET r == _parse(rest) IN
            IF r.err # "" THEN r
            ELSE ParseReturn(List(<<Symbol("quote"), r.val>>), r.rest)
      [] head.kind = "LP" -> ParseElements(rest, <<>>)
      [] OTHER -> ParseRaise(rest)

\* while tokens: forms.append(_parse(tokens))
ParseForms(tokens, forms) ==
    IF tokens = <<>> THEN ParseReturn(forms, tokens)
    ELSE LET r == _parse(tokens) IN
         IF r.err # "" THEN r
         ELSE ParseForms(r.rest, Append(forms, r.val))

\* parse(string): no token at all is the text that is all whitespace.
parse(tokens) ==
    IF tokens = <<>> THEN ParseReturn(Nil, tokens)
    ELSE LET r == ParseForms(tokens, <<Symbol("progn")>>) IN
         IF r.err # "" THEN r
         ELSE IF Len(r.val) = 2 THEN ParseReturn(r.val[2], r.rest)
         ELSE ParseReturn(List(r.val), r.rest)

-----------------------------------------------------------------------------
(* SchemeContext *)

BuiltinNames ==
    {"+", "-", "*", "mod", "/", ">", ">=", "<", "<=", "=", "eq?", "null?",
     "car", "cdr", "cons", "not", "length", "map", "filter", "apply"}

\* SchemeContext.__init__: the root frame binds the builtins and eval.
SchemeContext ==
    [frames |-> <<Frame([k \in {Symbol(n) : n \in BuiltinNames \cup {"eval"}}
                            |-> Native(k.name)], 0)>>,
     nclos |-> 0]

\* An evaluate that restores the frames when the evaluation raises.
Context_evaluate_rollback(tokens, h) ==
    LET value == parse(tokens) IN
    IF value.err # "" THEN Raise(h, value.err)
    ELSE IF evaluate(value.val, 1, h).err # ""
         THEN Raise(h, evaluate(value.val, 1, h).err)
    ELSE evaluate(value.val, 1, h)

\* SchemeContext.evaluate(string), on the heap h whose frame 1 is self._frame.
Context_evaluate(tokens, h) ==
    LET value == parse(tokens) IN
    IF value.err # "" THEN Raise(h, value.err)
    ELSE evaluate(value.val, 1, h)

-----------------------------------------------------------------------------
(* The tokens of TOKEN_SPECS, as tokenize emits them *)

LP == Token("LP", "(")

RP == Token("RP", ")")

\* The lexeme is the backquote character, spelled out here.
QUOTE == Token("QUOTE", "backquote")

SYMBOL(name) == Token("SYMBOL", name)

NUMBER(lexeme) == Token("NUMBER", lexeme)

BOOL(lexeme) == Token("BOOLEAN", lexeme)

\* A STRING token carries the text between the quotes.
STR(text) == Token("STRING", text)

\* The tokens of "(" form ")".
Paren(form) == <<LP>> \o form \o <<RP>>

-----------------------------------------------------------------------------
(* State.                                                                  *)
(*   heap    [frames, nclos]: the Frame objects and the number of Closure   *)
(*           objects created so far                                         *)
(*   op      the last operation: its name and arguments                     *)
(*   result  what the last operation returned or raised                     *)
(*   calls   the number of SchemeContext.evaluate calls made                *)

Op(name, frame, key, val, tokens) ==
    [name |-> name, frame |-> frame, key |-> key, val |-> val, tokens |-> tokens]

NoOp == Op("init", 0, None, None, <<>>)

Outcome(r) == [val |-> r.val, err |-> r.err]

NoResult == [val |-> None, err |-> ""]

-----------------------------------------------------------------------------
(* SpecFrame: a client of the Frame class and of evaluate on a symbol, as   *)
(* FrameTest and EvaluationTest use them, on a chain of frames.             *)

MaxFrames == 3

FrameSymbols == {Symbol("a")}

FrameValues == {Integer(0), Boolean(FALSE), Nil, Integer(5)}

\* Frame(): one frame without bindings and without parent.
InitFrame ==
    /\ heap = [frames |-> <<Frame(EmptyBindings, 0)>>, nclos |-> 0]
    /\ op = NoOp
    /\ result = NoResult
    /\ calls = 0

\* Frame(parent=p), p the newest frame.
FrameNew ==
    /\ Len(heap.frames) < MaxFrames
    /\ heap' = NewFrame(heap, EmptyBindings, Len(heap.frames))
    /\ op' = Op("new", Len(heap.frames) + 1, None, None, <<>>)
    /\ result' = NoResult
    /\ UNCHANGED calls

FrameBind(f, symbol, value) ==
    /\ heap' = Frame_bind(heap, f, symbol, value)
    /\ op' = Op("bind", f, symbol, value, <<>>)
    /\ result' = NoResult
    /\ UNCHANGED calls

FrameSet(f, symbol, value) ==
    /\ heap' = Frame_set(heap, f, symbol, value)
    /\ op' = Op("set", f, symbol, value, <<>>)
    /\ result' = NoResult
    /\ UNCHANGED calls

FrameLookup(f, symbol) ==
    /\ result' = [val |-> Frame_lookup(heap, f, symbol), err |-> ""]
    /\ op' = Op("lookup", f, symbol, None, <<>>)
    /\ UNCHANGED <<heap, calls>>

\* evaluate(symbol, frame)
EvaluateSymbol(f, symbol) ==
    LET r == evaluate(symbol, f, heap) IN
    /\ heap' = r.heap
    /\ result' = Outcome(r)
    /\ op' = Op("evaluate", f, symbol, None, <<>>)
    /\ UNCHANGED calls

NextFrame ==
    \/ FrameNew
    \/ \E f \in 1..Len(heap.frames), symbol \in FrameSymbols, value \in FrameValues :
          FrameBind(f, symbol, value)
    \/ \E f \in 1..Len(heap.frames), symbol \in FrameSymbols, value \in FrameValues :
          FrameSet(f, symbol, value)
    \/ \E f \in 1..Len(heap.frames), symbol \in FrameSymbols :
          FrameLookup(f, symbol)
    \/ \E f \in 1..Len(heap.frames), symbol \in FrameSymbols :
          EvaluateSymbol(f, symbol)

SpecFrame == InitFrame /\ [][NextFrame]_vars

\* The frames on the chain of f that bind the symbol, as positions in
\* Chain(h, f).
Binders(h, f, symbol) ==
    {i \in 1..Len(Chain(h, f)) : symbol \in DOMAIN h.frames[Chain(h, f)[i]].bindings}

\* The nearest frame on the chain of f that binds the symbol (0: none).
Nearest(h, f, symbol) ==
    IF Binders(h, f, symbol) = {} THEN 0
    ELSE Chain(h, f)[CHOOSE i \in Binders(h, f, symbol) :
                        \A j \in Binders(h, f, symbol) : i <= j]

\* C2: evaluating a symbol in a frame returns the value bound in the nearest
\* frame of the ancestor chain that binds it, whatever the value (0, false
\* and the empty list included), and raises the unbound-symbol error exactly
\* when no frame of the chain binds it.
C2_SymbolResolvesNearest ==
    op.name = "evaluate" =>
        LET g == Nearest(heap, op.frame, op.key) IN
        IF g = 0 THEN result.err = "Unbound"
        ELSE result.err = "" /\ result.val = heap.frames[g].bindings[op.key]

\* A symbol evaluated in a child frame whose own binding, the integer 0,
\* shadows another value bound by an ancestor.
C2_Witness ==
    /\ op.name = "evaluate"
    /\ op.frame > 1
    /\ op.key \in DOMAIN heap.frames[op.frame].bindings
    /\ heap.frames[op.frame].bindings[op.key] = Integer(0)
    /\ \E g \in 1..(op.frame - 1) :
          /\ op.key \in DOMAIN heap.frames[g].bindings
          /\ heap.frames[g].bindings[op.key] = Integer(5)
    /\ result = [val |-> Integer(0), err |-> ""]

\* C8: Frame.set updates the binding in the nearest frame of the chain that
\* binds the symbol, for every value bound there, and leaves the other
\* frames unchanged; it binds in the frame it was called on only when no
\* frame of the chain binds the symbol.
C8_SetUpdatesNearest ==
    [][op'.name = "set" =>
         LET g == Nearest(heap, op'.frame, op'.key) IN
         heap' = Frame_bind(heap, IF g = 0 THEN op'.frame ELSE g, op'.key, op'.val)]_vars

-----------------------------------------------------------------------------
(* SpecParse: a source text is typed token by token and handed to parse.    *)

MaxTokens == 4

ParseAlphabet == {LP, RP, QUOTE, SYMBOL("a"), NUMBER("1")}

\* No Frame exists: parse reads no frame.
InitParse ==
    /\ heap = [frames |-> <<>>, nclos |-> 0]
    /\ op = NoOp
    /\ result = NoResult
    /\ calls = 0

\* One more token of the text.
TypeToken(token) ==
    /\ op.name \in {"init", "type"}
    /\ Len(op.tokens) < MaxTokens
    /\ op' = Op("type", 0, None, None, Append(op.tokens, token))
    /\ UNCHANGED <<heap, result, calls>>

\* parse(string)
Parse ==
    /\ op.name = "type"
    /\ op' = [op EXCEPT !.name = "parse"]
    /\ result' = Outcome(parse(op.tokens))
    /\ UNCHANGED <<heap, calls>>

NextParse ==
    \/ \E token \in ParseAlphabet : TypeToken(token)
    \/ Parse

SpecParse == InitParse /\ [][NextParse]_vars

\* A sequence of well-formed forms, read left to right: depth is the number
\* of open parens and quoted says that the last token was a quote prefix,
\* which still waits for its form.
RECURSIVE WellFormedFrom(_, _, _, _)
WellFormedFrom(tokens, i, depth, quoted) ==
    IF i > Len(tokens) THEN depth = 0 /\ ~quoted
    ELSE CASE tokens[i].kind = "LP" -> WellFormedFrom(tokens, i + 1, depth + 1, FALSE)
           [] tokens[i].kind = "RP" ->
                 /\ depth > 0
                 /\ ~quoted
                 /\ WellFormedFrom(tokens, i + 1, depth - 1, FALSE)
           [] tokens[i].kind = "QUOTE" -> WellFormedFrom(tokens, i + 1, depth, TRUE)
           [] OTHER -> WellFormedFrom(tokens, i + 1, depth, FALSE)

WellFormed(tokens) == WellFormedFrom(tokens, 1, 0, FALSE)

\* C9: parse returns a value only for a sequence of well-formed forms; a
\* left paren without its right paren, a right paren without an open left
\* paren and a quote prefix without a form after it fail with a parse error
\* and no value.
C9_MalformedFailsToParse ==
    op.name = "parse" =>
        IF WellFormed(op.tokens) THEN result.err = ""
        ELSE result = [val |-> None, err |-> "Parse"]

-----------------------------------------------------------------------------
(* SpecExpr: one source text, of one of the families below, is evaluated by *)
(* a new SchemeContext.                                                     *)

\* The tokens of the texts in parts, one after the other.
RECURSIVE Cat(_)
Cat(parts) == IF parts = <<>> THEN <<>> ELSE Head(parts) \o Cat(Tail(parts))

Sym(name) == <<SYMBOL(name)>>

Num(lexeme) == <<NUMBER(lexeme)>>

\* A literal: its tokens and the value it denotes.
Literal(tokens, value) == [tokens |-> tokens, value |-> value]

InitExpr ==
    /\ heap = SchemeContext
    /\ op = NoOp
    /\ result = NoResult
    /\ calls = 0

\* SchemeContext().evaluate(text), text of the family `name`.
EvaluateOnce(name, key, val, tokens) ==
    LET r == Context_evaluate(tokens, heap) IN
    /\ calls = 0
    /\ calls' = 1
    /\ heap' = r.heap
    /\ result' = Outcome(r)
    /\ op' = Op(name, 1, key, val, tokens)

\* The bindings of frame f for the symbols named in names.
BindingsOf(h, f, names) ==
    [k \in {Symbol(n) : n \in names} \cap DOMAIN h.frames[f].bindings |->
        h.frames[f].bindings[k]]

\* The bindings name -> value of the pairs <<name, value>> in pairs.
Bindings(pairs) ==
    [k \in {Symbol(p[1]) : p \in pairs} |->
        (CHOOSE p \in pairs : Symbol(p[1]) = k)[2]]

(* Tests: a literal in the test position of if and cond and as an operand   *)
(* of and and or.                                                           *)

TestLiterals ==
    { Literal(Num("0"), Integer(0)),
      Literal(Num("1"), Integer(1)),
      Literal(Num("0.0"), Float(0)),
      Literal(Num("2.0"), Float(2)),
      Literal(<<STR("")>>, String("")),
      Literal(<<STR("a")>>, String("a")),
      Literal(<<BOOL("#t")>>, Boolean(TRUE)),
      Literal(<<BOOL("#f")>>, Boolean(FALSE)),
      Literal(<<QUOTE, LP, RP>>, Nil),
      Literal(<<QUOTE>> \o Paren(Num("0")), List(<<Integer(0)>>)),
      Literal(<<QUOTE>> \o Sym("a"), Symbol("a")) }

TestForms == {"if", "cond", "and-first", "and-last", "or-first", "or-last"}

TestProgram(form, test) ==
    CASE form = "if" -> Paren(Sym("if") \o test \o Num("1") \o Num("2"))
      [] form = "cond" ->
            Paren(Sym("cond") \o Paren(test \o Num("1"))
                    \o Paren(<<BOOL("#t")>> \o Num("2")))
      [] form = "and-first" -> Paren(Sym("and") \o test \o <<BOOL("#t")>>)
      [] form = "and-last" -> Paren(Sym("and") \o <<BOOL("#t")>> \o test)
      [] form = "or-first" -> Paren(Sym("or") \o test \o <<BOOL("#f")>>)
      [] form = "or-last" -> Paren(Sym("or") \o <<BOOL("#f")>> \o test)

\* The value of the form when its test counts as true, or as false.
TestExpected(form, true) ==
    IF form \in {"if", "cond"} THEN (IF true THEN Integer(1) ELSE Integer(2))
    ELSE Boolean(true)

EvaluateTest(form, test) ==
    EvaluateOnce(form, None, test.value, TestProgram(form, test.tokens))

(* Comparisons: (OP a b) on two number literals.                            *)

NumberLiterals ==
    { Literal(Num("0"), Integer(0)),
      Literal(Num("1"), Integer(1)),
      Literal(Num("2"), Integer(2)),
      Literal(Num("1.0"), Float(1)) }

Comparisons == {">", ">=", "<", "<=", "="}

\* The relation a comparison's name denotes.
Relation(name, a, b) ==
    CASE name = ">" -> a > b
      [] name = ">=" -> a >= b
      [] name = "<" -> a < b
      [] name = "<=" -> a <= b
      [] name = "=" -> a = b

EvaluateCompare(name, a, b) ==
    EvaluateOnce("compare", Symbol(name), List(<<a.value, b.value>>),
                 Paren(Sym(name) \o a.tokens \o b.tokens))

(* Short calls: a closure of nparams parameters is applied to nargs <      *)
(* nparams arguments; its body evaluates its parameters in order, up to the *)
(* first one without argument. The closure is made by define or lambda, in  *)
(* the root frame or in the frame of a let; the name of that parameter may  *)
(* be bound by the let ("letbind") and by the root frame (rootBinds).       *)

MaxParams == 2

ParamNames == <<"p", "q", "r", "s">>

ShortCases ==
    {c \in [nparams : 1..MaxParams, nargs : 0..(MaxParams - 1),
            maker : {"define", "lambda"}, scope : {"root", "let", "letbind"},
            rootBinds : BOOLEAN] : c.nargs < c.nparams}

\* The first parameter without argument.
Missing(c) == ParamNames[c.nargs + 1]

ShortProgram(c) ==
    LET params == Cat([i \in 1..c.nparams |-> Sym(ParamNames[i])])
        body == Cat([i \in 1..(c.nargs + 1) |-> Sym(ParamNames[i])])
        args == Cat([i \in 1..c.nargs |-> Num("1")])
        bound == Paren(Paren(Sym(IF c.scope = "letbind" THEN Missing(c) ELSE "z")
                               \o Num("5")))
        define == Paren(Sym("define") \o Paren(Sym("f") \o params) \o body)
                    \o Paren(Sym("f") \o args)
        lambda == Paren(Sym("lambda") \o Paren(params) \o body)
    IN
    (IF c.rootBinds THEN Paren(Sym("set") \o Sym(Missing(c)) \o Num("7")) ELSE <<>>)
    \o
    CASE c.maker = "define" /\ c.scope = "root" -> define
      [] c.maker = "define" /\ c.scope # "root" ->
            Paren(Sym("let") \o bound \o Paren(Sym("progn") \o define))
      [] c.maker = "lambda" /\ c.scope = "root" -> Paren(lambda \o args)
      [] c.maker = "lambda" /\ c.scope # "root" ->
            Paren(Paren(Sym("let") \o bound \o lambda) \o args)

EvaluateShortCall(c) == EvaluateOnce("short", None, None, ShortProgram(c))

(* Lets: (let ((A1 V1) ... (An Vn)) BODY) in an outer frame that binds a to *)
(* 1 and does not bind b: the root frame, where (set a 1) ran, or the frame *)
(* of a closure applied to 1 whose parameter is a and whose body is the let *)
(* and then a. Ai is the i-th of LetNames; Vi is a literal ("lit") or one   *)
(* of the symbols a and b; BODY is a, b, (set a 9) or (set e 9).            *)

MaxLet == 2

LetNames == <<"a", "b", "c", "d">>

LetLexemes == <<"5", "7", "9", "3">>

LetCases ==
    UNION {[n : {n}, vals : [1..n -> {"lit", "a", "b"}],
            body : {"a", "b", "set-a", "set-e"}, outer : {"root", "closure"}]
           : n \in 1..MaxLet}

LetProgram(c) ==
    LET pair(i) == Paren(Sym(LetNames[i])
                           \o (IF c.vals[i] = "lit" THEN Num(LetLexemes[i])
                               ELSE Sym(c.vals[i])))
        body == CASE c.body = "set-a" -> Paren(Sym("set") \o Sym("a") \o Num("9"))
                  [] c.body = "set-e" -> Paren(Sym("set") \o Sym("e") \o Num("9"))
                  [] OTHER -> Sym(c.body)
        let == Paren(Sym("let") \o Paren(Cat([i \in 1..c.n |-> pair(i)])) \o body)
    IN
    IF c.outer = "root" THEN Paren(Sym("set") \o Sym("a") \o Num("1")) \o let
    ELSE Paren(Paren(Sym("lambda") \o Paren(Sym("a")) \o let \o Sym("a")) \o Num("1"))

EvaluateLet(c) == EvaluateOnce("let", None, None, LetProgram(c))

(* Sets: (set a EXPR), EXPR a literal, evaluated                            *)
(*   "root"      in the root frame,                                        *)
(*   "let"       in the frame of a let that binds z,                        *)
(*   "letshadow" in the frame of a let that binds a,                        *)
(*   "nested"    in the frame of a let inside a let that binds a to 5 and   *)
(*               whose body then returns a,                                *)
(*   "closure"   in the frame of a call of a closure of the root frame.     *)
(* The root frame binds a to 1 beforehand (rootBound) or not; the set is    *)
(* followed by a in the same frame (inspect) or not.                        *)

SetLiterals ==
    { Literal(Num("0"), Integer(0)),
      Literal(Num("9"), Integer(9)),
      Literal(<<BOOL("#f")>>, Boolean(FALSE)),
      Literal(<<QUOTE, LP, RP>>, Nil) }

SetCases ==
    [where : {"root", "let", "letshadow", "nested", "closure"},
     rootBound : BOOLEAN, expr : SetLiterals, inspect : BOOLEAN]

SetProgram(c) ==
    LET set == Paren(Sym("set") \o Sym("a") \o c.expr.tokens)
                 \o (IF c.inspect THEN Sym("a") ELSE <<>>)
        let(name, lexeme, body) ==
            Paren(Sym("let") \o Paren(Paren(Sym(name) \o Num(lexeme)))
                    \o Paren(Sym("progn") \o body))
    IN
    (IF c.rootBound THEN Paren(Sym("set") \o Sym("a") \o Num("1")) ELSE <<>>)
    \o
    CASE c.where = "root" -> set
      [] c.where = "let" -> let("z", "5", set)
      [] c.where = "letshadow" -> let("a", "5", set)
      [] c.where = "nested" -> let("a", "5", let("z", "7", set) \o Sym("a"))
      [] c.where = "closure" ->
            Paren(Sym("define") \o Paren(Sym("f")) \o set) \o Paren(Sym("f"))

EvaluateSet(c) == EvaluateOnce("set", None, None, SetProgram(c))

(* Closures: a closure whose body is the free symbol x is made by lambda or *)
(* define in the frame of a let, or of a call of another closure, that      *)
(* binds x to 2 (defBinds) or binds only z; it is stored in f and applied   *)
(* after that frame's form has returned, from the root frame, from the body *)
(* of a let that binds x to 3, or from the body of a closure whose          *)
(* parameter x is 3. The root frame binds x to 1 beforehand (rootBinds) or  *)
(* not.                                                                    *)

ClosureCases ==
    [maker : {"let-lambda", "let-define", "call-lambda", "call-define"},
     defBinds : BOOLEAN, rootBinds : BOOLEAN, caller : {"root", "let", "call"}]

ClosureProgram(c) ==
    LET name == IF c.defBinds THEN "x" ELSE "z"
        lambda == Paren(Sym("lambda") \o Paren(<<>>) \o Sym("x"))
        define == Paren(Sym("define") \o Paren(Sym("g")) \o Sym("x")) \o Sym("g")
        let(body) == Paren(Sym("let") \o Paren(Paren(Sym(name) \o Num("2"))) \o body)
        mk(body) == Paren(Sym("define") \o Paren(Sym("mk") \o Sym(name)) \o body)
        store(expr) == Paren(Sym("set") \o Sym("f") \o expr)
    IN
    (IF c.rootBinds THEN Paren(Sym("set") \o Sym("x") \o Num("1")) ELSE <<>>)
    \o
    (CASE c.maker = "let-lambda" -> store(let(lambda))
       [] c.maker = "let-define" -> store(let(Paren(Sym("progn") \o define)))
       [] c.maker = "call-lambda" ->
             mk(lambda) \o store(Paren(Sym("mk") \o Num("2")))
       [] c.maker = "call-define" ->
             mk(define) \o store(Paren(Sym("mk") \o Num("2"))))
    \o
    (CASE c.caller = "root" -> Paren(Sym("f"))
       [] c.caller = "let" ->
             Paren(Sym("let") \o Paren(Paren(Sym("x") \o Num("3"))) \o Paren(Sym("f")))
       [] c.caller = "call" ->
             Paren(Sym("define") \o Paren(Sym("c") \o Sym("x")) \o Paren(Sym("f")))
               \o Paren(Sym("c") \o Num("3")))

EvaluateClosure(c) == EvaluateOnce("closure", None, None, ClosureProgram(c))

NextExpr ==
    \/ \E form \in TestForms, test \in TestLiterals : EvaluateTest(form, test)
    \/ \E name \in Comparisons, a \in NumberLiterals, b \in NumberLiterals :
          EvaluateCompare(name, a, b)
    \/ \E c \in ShortCases : EvaluateShortCall(c)
    \/ \E c \in LetCases : EvaluateLet(c)
    \/ \E c \in SetCases : EvaluateSet(c)
    \/ \E c \in ClosureCases : EvaluateClosure(c)

SpecExpr == InitExpr /\ [][NextExpr]_vars

\* C1: in the test position of if and cond and for every operand of and and
\* or, a value counts as false exactly when it is boolean false or the empty
\* list; every other value (0, 0.0 and the empty string included) counts as
\* true, so that (if 0 A B) returns A.
C1_OnlyFalseAndNilAreFalse ==
    op.name \in TestForms =>
        result = [val |-> TestExpected(op.name, op.val \notin {Boolean(FALSE), Nil}),
                  err |-> ""]

\* C6: each comparison procedure of the root frame computes the relation its
\* name denotes on every pair of numbers; (< a a) is false.
C6_ComparisonsComputeTheirRelation ==
    op.name = "compare" =>
        result = [val |-> Boolean(Relation(op.key.name, op.val.elems[1].num,
                                           op.val.elems[2].num)),
                  err |-> ""]

\* C5, in the wording of the specification: when a closure is applied to
\* fewer arguments than it has parameters, the first evaluation of a parameter without argument fails
\* with the unbound-symbol error, for every closure and every frame it was
\* defined in.
C5_ShortCallFailsUnbound ==
    op.name = "short" => result.err = "Unbound"

\* C5, refined: the frame of the call binds only the parameters that have
\* an argument; the first evaluation of a parameter without argument yields
\* the value bound to its name by the nearest frame of the closure's
\* defining chain, and fails with the unbound-symbol error exactly when no
\* frame of that chain binds the name.
C5_ShortCallResolvesInDefiningChain ==
    \A c \in ShortCases :
        op.tokens = ShortProgram(c) =>
            /\ result = (CASE c.scope = "letbind" -> [val |-> Integer(5), err |-> ""]
                           [] c.scope # "letbind" /\ c.rootBinds ->
                                 [val |-> Integer(7), err |-> ""]
                           [] OTHER -> [val |-> None, err |-> "Unbound"])
            /\ DOMAIN heap.frames[Len(heap.frames)].bindings
                  = {Symbol(ParamNames[i]) : i \in 1..c.nargs}

\* A closure of two parameters made in the frame of a let and applied to
\* one argument has failed with the unbound-symbol error.
C5_Witness ==
    /\ op.tokens = ShortProgram([nparams |-> 2, nargs |-> 1, maker |-> "lambda",
                                 scope |-> "let", rootBinds |-> FALSE])
    /\ result.err = "Unbound"
    /\ DOMAIN heap.frames[Len(heap.frames)].bindings = {Symbol("p")}

\* The names a let of the family may bind or set.
LetSymbols == {LetNames[i] : i \in 1..Len(LetNames)} \cup {"e"}

\* What the Vi of a let denote in the outer frame: the literal, or the
\* outer binding of a; b is not bound there.
LetValue(c, i) ==
    IF c.vals[i] = "lit" THEN Integer(IntLexemes[LetLexemes[i]]) ELSE Integer(1)

\* Some Vi, or the BODY, evaluates a symbol that no frame binds.
LetFails(c) ==
    \/ \E i \in 1..c.n : c.vals[i] = "b"
    \/ c.body = "b" /\ c.n < 2

\* The bindings of the frame of the let once BODY has run.
LetBindings(c) ==
    (IF c.body = "set-a" THEN Bindings({<<"a", Integer(9)>>}) ELSE EmptyBindings)
    @@ Bindings({<<LetNames[i], LetValue(c, i)>> : i \in 1..c.n}
                  \cup (IF c.body = "set-e" THEN {<<"e", Integer(9)>>} ELSE {}))

\* C10: (let ((A1 V1) ... (An Vn)) BODY) evaluates every Vi in the outer
\* frame (no Vi sees an Aj of the same let), evaluates BODY in one new child
\* frame of the outer frame that binds each Ai to its value, and leaves the
\* bindings of the outer frame as they were.
C10_LetBindsInOneChildFrame ==
    \A c \in LetCases :
        op.tokens = LetProgram(c) =>
            LET outer == IF c.outer = "root" THEN 1 ELSE 2 IN
            /\ result.err = (IF LetFails(c) THEN "Unbound" ELSE "")
            /\ BindingsOf(heap, outer, LetSymbols) = Bindings({<<"a", Integer(1)>>})
            /\ Len(heap.frames) =
                  outer + (IF \E i \in 1..c.n : c.vals[i] = "b" THEN 0 ELSE 1)
            /\ ~(\E i \in 1..c.n : c.vals[i] = "b") =>
                  /\ heap.frames[outer + 1].parent = outer
                  /\ heap.frames[outer + 1].bindings = LetBindings(c)
            /\ ~LetFails(c) =>
                  result.val =
                      CASE c.outer = "closure" -> Integer(1)
                        [] c.outer = "root" /\ c.body \in {"set-a", "set-e"} -> Nil
                        [] c.outer = "root" /\ c.body = "a" -> LetValue(c, 1)
                        [] c.outer = "root" /\ c.body = "b" -> LetValue(c, 2)

\* A let in the root frame has bound a to 5 and b to the outer value of a,
\* and its body has set a to 9, all in its own frame: the root frame still
\* binds a to 1.
C10_Witness ==
    /\ op.tokens = LetProgram([n |-> 2, vals |-> <<"lit", "a">>, body |-> "set-a",
                               outer |-> "root"])
    /\ result = [val |-> Nil, err |-> ""]
    /\ heap.frames[1].bindings[Symbol("a")] = Integer(1)
    /\ heap.frames[2].bindings[Symbol("b")] = Integer(1)
    /\ heap.frames[2].bindings[Symbol("a")] = Integer(9)

\* C3: (set SYM EXPR) creates or overwrites the binding of SYM in the frame
\* it is evaluated in, and there only, and returns the empty list: every
\* ancestor frame keeps its bindings, a binding of SYM in a parent or in the
\* root frame included, so that a set made in the body of a let or of a
\* closure is not visible once that body has returned.
C3_SetBindsInCurrentFrameOnly ==
    \A c \in SetCases :
        op.tokens = SetProgram(c) =>
            LET current == Len(heap.frames) IN
            /\ result.err = ""
            /\ result.val = (CASE c.where = "nested" -> Integer(5)
                               [] c.where # "nested" /\ c.inspect -> c.expr.value
                               [] OTHER -> Nil)
            /\ current = (CASE c.where = "root" -> 1
                            [] c.where = "nested" -> 3
                            [] OTHER -> 2)
            /\ BindingsOf(heap, current, {"a"}) = Bindings({<<"a", c.expr.value>>})
            /\ c.where # "root" =>
                  BindingsOf(heap, 1, {"a", "z"}) =
                      (IF c.rootBound THEN Bindings({<<"a", Integer(1)>>})
                       ELSE EmptyBindings)
            /\ c.where = "nested" =>
                  heap.frames[2].bindings = Bindings({<<"a", Integer(5)>>})

\* A set of a to 9 ran in the frame of a let inside a let that binds a to 5,
\* under a root frame that binds a to 1: both ancestors keep their binding.
C3_Witness ==
    /\ op.tokens = SetProgram([where |-> "nested", rootBound |-> TRUE,
                               expr |-> Literal(Num("9"), Integer(9)),
                               inspect |-> FALSE])
    /\ result = [val |-> Integer(5), err |-> ""]
    /\ heap.frames[1].bindings[Symbol("a")] = Integer(1)
    /\ heap.frames[2].bindings[Symbol("a")] = Integer(5)
    /\ heap.frames[3].bindings[Symbol("a")] = Integer(9)

\* C7: a closure resolves the free symbols of its body through the frame it
\* was created in, not through the frame of its caller: made by lambda or
\* define inside a let or inside the application of another closure, it
\* still sees that frame's bindings when applied after the let or the
\* application has returned, and a binding of the same name in the caller's
\* frame is never used in their place.
C7_ClosureResolvesInDefiningFrame ==
    \A c \in ClosureCases :
        op.tokens = ClosureProgram(c) =>
            result = (CASE c.defBinds -> [val |-> Integer(2), err |-> ""]
                        [] ~c.defBinds /\ c.rootBinds -> [val |-> Integer(1), err |-> ""]
                        [] OTHER -> [val |-> None, err |-> "Unbound"])

\* A closure made by lambda in a call of mk with x = 2 has been applied,
\* after that call returned, from the body of a let that binds x to 3 under
\* a root frame that binds x to 1, and has returned 2.
C7_Witness ==
    /\ op.tokens = ClosureProgram([maker |-> "call-lambda", defBinds |-> TRUE,
                                   rootBinds |-> TRUE, caller |-> "let"])
    /\ result = [val |-> Integer(2), err |-> ""]
    /\ \E f \in 2..Len(heap.frames) :
          /\ heap.frames[f].bindings = Bindings({<<"x", Integer(3)>>})
          /\ heap.frames[f].parent = 1
    /\ heap.frames[1].bindings[Symbol("f")].kind = "closure"
    /\ heap.frames[heap.frames[1].bindings[Symbol("f")].frame].bindings
          = Bindings({<<"x", Integer(2)>>})

-----------------------------------------------------------------------------
(* Spec: a SchemeContext and a sequence of evaluate calls on it. Each text  *)
(* of Programs is listed with the bindings its set and define forms make in *)
(* the root frame before its first failing form, if one fails: sets, as     *)
(* <<name, value>>, and defs, the names bound to closures.                  *)

MaxCalls == 3

Program(tokens, sets, defs) == [tokens |-> tokens, sets |-> sets, defs |-> defs]

SetForm(name, lexeme) == Paren(Sym("set") \o Sym(name) \o Num(lexeme))

Programs ==
    { \* (set a 1)
      Program(SetForm("a", "1"), {<<"a", Integer(1)>>}, {}),
      \* (set a 2) zz (set b 3)
      Program(SetForm("a", "2") \o Sym("zz") \o SetForm("b", "3"),
              {<<"a", Integer(2)>>}, {}),
      \* (set b 3) (define (f) b) (f zz) (set a 9)
      Program(SetForm("b", "3") \o Paren(Sym("define") \o Paren(Sym("f")) \o Sym("b"))
                \o Paren(Sym("f") \o Sym("zz")) \o SetForm("a", "9"),
              {<<"b", Integer(3)>>}, {"f"}),
      \* a
      Program(Sym("a"), {}, {}),
      \* b
      Program(Sym("b"), {}, {}),
      \* (f)
      Program(Paren(Sym("f")), {}, {}),
      \* (progn (set a 5) (1 2))
      Program(Paren(Sym("progn") \o SetForm("a", "5") \o Paren(Num("1") \o Num("2"))),
              {<<"a", Integer(5)>>}, {}),
      \* (define (g) (set a 7) zz) (g) (set b 9)
      Program(Paren(Sym("define") \o Paren(Sym("g")) \o SetForm("a", "7") \o Sym("zz"))
                \o Paren(Sym("g")) \o SetForm("b", "9"),
              {}, {"g"}),
      \* (let ((c 1)) (progn (set b 5) zz))
      Program(Paren(Sym("let") \o Paren(Paren(Sym("c") \o Num("1")))
                      \o Paren(Sym("progn") \o SetForm("b", "5") \o Sym("zz"))),
              {}, {}),
      \* (set b 7) (car (quote ()))
      Program(SetForm("b", "7")
                \o Paren(Sym("car") \o Paren(Sym("quote") \o Paren(<<>>))),
              {<<"b", Integer(7)>>}, {}),
      \* (set a 3) (
      Program(SetForm("a", "3") \o <<LP>>, {}, {}) }

Init ==
    /\ heap = SchemeContext
    /\ op = NoOp
    /\ result = NoResult
    /\ calls = 0

\* context.evaluate(text)
Evaluate(tokens) ==
    LET r == Context_evaluate(tokens, heap) IN
    /\ calls < MaxCalls
    /\ calls' = calls + 1
    /\ heap' = r.heap
    /\ result' = Outcome(r)
    /\ op' = Op("evaluate", 1, None, None, tokens)

Next == \E p \in Programs : Evaluate(p.tokens)

Spec == Init /\ [][Next]_vars

\* The bindings of the root frame.
Root(h) == h.frames[1].bindings

\* C4: when an evaluate call fails with an evaluation error partway through
\* a sequence of forms, the root frame then holds its bindings from before
\* the call plus those made by the set and define forms that completed
\* before the failing form, and nothing else has changed; a later evaluate
\* call on the same context succeeds and sees those bindings.
C4_FailedCallKeepsCompletedBindings ==
    [][/\ \A p \in Programs :
             op'.tokens = p.tokens /\ result'.err \notin {"", "Parse"} =>
                 /\ DOMAIN Root(heap') =
                       DOMAIN Root(heap) \cup {Symbol(b[1]) : b \in p.sets}
                         \cup {Symbol(n) : n \in p.defs}
                 /\ \A b \in p.sets : Root(heap')[Symbol(b[1])] = b[2]
                 /\ \A n \in p.defs : Root(heap')[Symbol(n)].kind = "closure"
                 /\ \A k \in DOMAIN Root(heap) :
                       k \notin {Symbol(b[1]) : b \in p.sets} \cup {Symbol(n) : n \in p.defs}
                           => Root(heap')[k] = Root(heap)[k]
       /\ \A name \in {"a", "b"} :
             /\ result.err \notin {"", "Parse"}
             /\ op'.tokens = Sym(name)
             /\ Symbol(name) \in DOMAIN Root(heap)
             => result' = [val |-> Root(heap)[Symbol(name)], err |-> ""]
      ]_vars

\* After a call that failed at its third form, (f zz), having bound b and f
\* and not yet a, a later call has read b.
C4_Witness ==
    /\ calls = 2
    /\ op.tokens = Sym("b")
    /\ result = [val |-> Integer(3), err |-> ""]
    /\ Symbol("f") \in DOMAIN Root(heap)
    /\ Symbol("a") \notin DOMAIN Root(heap)

====
